---- MODULE Spec2Model ----
(***************************************************************************)
(* Model of the Webflow MCP server of src/src/index.ts: the tool catalog,  *)
(* the zod argument schemas, the WebflowAPI adapter and the 'call tool'    *)
(* request handler with its single try/catch.                              *)
(*                                                                         *)
(* A text (a JavaScript string) is a sequence of fragments; a fragment is  *)
(* a TLA+ string.  Strings the code looks into (an item name, which is     *)
(* lowercased and matched against a regular expression) are given one      *)
(* character per fragment; strings the code only copies (identifiers,      *)
(* literal pieces of templates) are one fragment.  A template literal is   *)
(* the concatenation \o of its pieces.                                     *)
(***************************************************************************)
EXTENDS Integers, Sequences, FiniteSets, TLC

VARIABLES calls, sent, listing

vars == <<calls, sent, listing>>

(***************************************************************************)
(* Bounds of the model.                                                    *)
(***************************************************************************)
\* number of 'call tool' requests that can be in flight at once
MaxCalls == 2
\* length of the item names enumerated over Alphabet
MaxNameLen == 2

CallIds == 1..MaxCalls

(***************************************************************************)
(* Texts.                                                                  *)
(***************************************************************************)
\* sub occurs in text as a contiguous run of fragments (String.includes)
Contains(text, sub) ==
  \E i \in 0..(Len(text) - Len(sub)) :
    \A j \in 1..Len(sub) : text[i + j] = sub[j]

\* Array.prototype.join over an array of texts
RECURSIVE Join(_, _)
Join(texts, sep) ==
  IF Len(texts) = 0 THEN <<>>
  ELSE IF Len(texts) = 1 THEN texts[1]
  ELSE texts[1] \o sep \o Join(Tail(texts), sep)

\* a number interpolated into a template literal
NumText(n) == <<ToString(n)>>

(***************************************************************************)
(* JSON values: the values a caller can put into the argument mapping and  *)
(* the values the handler puts into a request body.  One record shape for  *)
(* every type; t is the type tag zod reports ("undefined" for an absent    *)
(* value).  o is an object (a function from keys to JSON values), a an     *)
(* array.                                                                  *)
(***************************************************************************)
EmptyObj == [k \in {} |-> 0]

Undefined == [t |-> "undefined", s |-> <<>>, n |-> 0, b |-> FALSE, o |-> EmptyObj, a |-> <<>>]
JStr(s)   == [t |-> "string",    s |-> s,    n |-> 0, b |-> FALSE, o |-> EmptyObj, a |-> <<>>]
JNum(n)   == [t |-> "number",    s |-> <<>>, n |-> n, b |-> FALSE, o |-> EmptyObj, a |-> <<>>]
JBool(b)  == [t |-> "boolean",   s |-> <<>>, n |-> 0, b |-> b,     o |-> EmptyObj, a |-> <<>>]
JObj(o)   == [t |-> "object",    s |-> <<>>, n |-> 0, b |-> FALSE, o |-> o,        a |-> <<>>]
JArr(a)   == [t |-> "array",     s |-> <<>>, n |-> 0, b |-> FALSE, o |-> EmptyObj, a |-> a]

\* property access: obj[key], undefined when the key is absent
Get(obj, key) == IF key \in DOMAIN obj THEN obj[key] ELSE Undefined

\* an object literal with the undefined-valued keys left out
Strip(obj) == [k \in {x \in DOMAIN obj : obj[x].t # "undefined"} |-> obj[k]]

\* { ...base, ...over }: the keys of over are written last
Spread(base, over) ==
  [k \in DOMAIN base \cup DOMAIN over |->
     IF k \in DOMAIN over THEN over[k] ELSE base[k]]

\* JavaScript truthiness of a JSON value (as used by || and if)
Truthy(v) ==
  CASE v.t = "undefined" -> FALSE
    [] v.t = "string"    -> v.s # <<>>
    [] v.t = "number"    -> v.n # 0
    [] v.t = "boolean"   -> v.b
    [] OTHER             -> TRUE

(***************************************************************************)
(* Argument Validator: the zod schemas.  A schema is the sequence of its   *)
(* fields in declaration order; default = Undefined means "no default",    *)
(* element is the type of an array's elements.                             *)
(***************************************************************************)
Field(key, type, optional, default) ==
  [key |-> key, type |-> type, optional |-> optional, default |-> default,
   element |-> ""]

ArrayField(key, element) ==
  [key |-> key, type |-> "array", optional |-> FALSE, default |-> Undefined,
   element |-> element]

DefaultLimit == 10
DefaultOffset == 0

GetSiteSchema == << Field("siteId", "string", FALSE, Undefined) >>

GetCollectionsSchema == << Field("siteId", "string", FALSE, Undefined) >>

CreateCollectionItemSchema ==
  << Field("collectionId", "string", FALSE, Undefined),
     Field("name", "string", FALSE, Undefined),
     Field("slug", "string", TRUE, Undefined),
     Field("fieldData", "object", TRUE, Undefined),
     Field("isDraft", "boolean", TRUE, JBool(FALSE)),
     Field("isArchived", "boolean", TRUE, JBool(FALSE)) >>

\* the update schema with the defaults of the create schema
UpdateCollectionItemSchemaWithDefaults ==
  << Field("collectionId", "string", FALSE, Undefined),
     Field("itemId", "string", FALSE, Undefined),
     Field("name", "string", TRUE, Undefined),
     Field("slug", "string", TRUE, Undefined),
     Field("fieldData", "object", TRUE, Undefined),
     Field("isDraft", "boolean", TRUE, JBool(FALSE)),
     Field("isArchived", "boolean", TRUE, JBool(FALSE)) >>

UpdateCollectionItemSchema ==
  << Field("collectionId", "string", FALSE, Undefined),
     Field("itemId", "string", FALSE, Undefined),
     Field("name", "string", TRUE, Undefined),
     Field("slug", "string", TRUE, Undefined),
     Field("fieldData", "object", TRUE, Undefined),
     Field("isDraft", "boolean", TRUE, Undefined),
     Field("isArchived", "boolean", TRUE, Undefined) >>

DeleteCollectionItemSchema ==
  << Field("collectionId", "string", FALSE, Undefined),
     Field("itemId", "string", FALSE, Undefined) >>

GetCollectionItemsSchema ==
  << Field("collectionId", "string", FALSE, Undefined),
     Field("limit", "number", TRUE, JNum(DefaultLimit)),
     Field("offset", "number", TRUE, JNum(DefaultOffset)) >>

\* the schema built inline in case 'publish_collection_items'
PublishCollectionItemsSchema ==
  << Field("collectionId", "string", FALSE, Undefined),
     ArrayField("itemIds", "string") >>

Issue(path, message) == [path |-> path, message |-> message]

\* the issues zod raises for the elements of an array value
ElementIssues(field, v) ==
  LET F[i \in 0..Len(v.a)] ==
        IF i = 0 THEN <<>>
        ELSE IF v.a[i].t = field.element THEN F[i - 1]
        ELSE Append(F[i - 1],
               Issue(<<field.key, ToString(i - 1)>>,
                     IF v.a[i].t = "undefined" THEN <<"Required">>
                     ELSE <<"Expected ", field.element, ", received ", v.a[i].t>>))
  IN F[Len(v.a)]

\* the issues zod raises for one field of the argument object
FieldIssues(field, obj) ==
  LET v == Get(obj, field.key) IN
  IF v.t = "undefined"
    THEN IF field.optional THEN <<>>
         ELSE << Issue(<<field.key>>, <<"Required">>) >>
  ELSE IF v.t # field.type
    THEN << Issue(<<field.key>>, <<"Expected ", field.type, ", received ", v.t>>) >>
  ELSE IF field.type = "array" THEN ElementIssues(field, v)
  ELSE <<>>

\* the value a field parses to: the given one, or the default when absent
FieldValue(field, obj) ==
  LET v == Get(obj, field.key) IN
  IF v.t = "undefined" THEN field.default ELSE v

\* schema.parse(args): args is Undefined when the request carries no
\* argument mapping.  success = FALSE stands for the thrown ZodError, whose
\* issues are errors.
ZodParse(schema, args) ==
  LET keys == {schema[i].key : i \in 1..Len(schema)}
      fieldOf(k) == CHOOSE f \in {schema[i] : i \in 1..Len(schema)} : f.key = k
      G[i \in 0..Len(schema)] ==
        IF i = 0 THEN <<>> ELSE G[i - 1] \o FieldIssues(schema[i], args.o)
      errors ==
        IF args.t = "undefined" THEN << Issue(<<>>, <<"Required">>) >>
        ELSE IF args.t # "object"
          THEN << Issue(<<>>, <<"Expected object, received ", args.t>>) >>
        ELSE G[Len(schema)]
  IN [success |-> errors = <<>>,
      errors  |-> errors,
      data    |-> [k \in keys |-> FieldValue(fieldOf(k), args.o)]]

(***************************************************************************)
(* API Adapter: class WebflowAPI.                                          *)
(***************************************************************************)
WEBFLOW_API_TOKEN == <<"secret-token">>

WEBFLOW_API_BASE == <<"https://api.webflow.com/v2">>

\* this.headers, set once by the constructor
headers ==
  [k \in {"Authorization", "Content-Type"} |->
     IF k = "Authorization" THEN <<"Bearer ">> \o WEBFLOW_API_TOKEN
     ELSE <<"application/json">>]

\* the options argument of makeRequest; method "GET" is fetch's default
Options(method, hasBody, body) ==
  [method |-> method, hasBody |-> hasBody, body |-> body, headers |-> EmptyObj]

NoOptions == Options("GET", FALSE, Undefined)

\* makeRequest up to its await: the argument of the fetch call.  body is
\* the JSON document that JSON.stringify(data) encodes.
FetchCall(endpoint, options) ==
  [url     |-> WEBFLOW_API_BASE \o endpoint,
   method  |-> options.method,
   hasBody |-> options.hasBody,
   body    |-> options.body,
   headers |-> Spread(headers, options.headers)]

getSites == FetchCall(<<"/sites">>, NoOptions)

getSite(siteId) == FetchCall(<<"/sites/">> \o siteId, NoOptions)

getCollections(siteId) ==
  FetchCall(<<"/sites/">> \o siteId \o <<"/collections">>, NoOptions)

\* a request with the two query values the wrong way round
getCollectionItemsSwapped(collectionId, limit, offset) ==
  FetchCall(<<"/collections/">> \o collectionId \o <<"/items?limit=">>
              \o NumText(IF offset.t = "undefined" THEN 0 ELSE offset.n)
              \o <<"&offset=">>
              \o NumText(IF limit.t = "undefined" THEN 10 ELSE limit.n),
            NoOptions)

\* limit = 10 and offset = 0 are the default parameters of the method
getCollectionItems(collectionId, limit, offset) ==
  FetchCall(<<"/collections/">> \o collectionId \o <<"/items?limit=">>
              \o NumText(IF limit.t = "undefined" THEN 10 ELSE limit.n)
              \o <<"&offset=">>
              \o NumText(IF offset.t = "undefined" THEN 0 ELSE offset.n),
            NoOptions)

createCollectionItem(collectionId, data) ==
  FetchCall(<<"/collections/">> \o collectionId \o <<"/items">>,
            Options("POST", TRUE, data))

updateCollectionItem(collectionId, itemId, data) ==
  FetchCall(<<"/collections/">> \o collectionId \o <<"/items/">> \o itemId,
            Options("PATCH", TRUE, data))

deleteCollectionItem(collectionId, itemId) ==
  FetchCall(<<"/collections/">> \o collectionId \o <<"/items/">> \o itemId,
            Options("DELETE", FALSE, Undefined))

publishCollectionItems(collectionId, itemIds) ==
  FetchCall(<<"/collections/">> \o collectionId \o <<"/items/publish">>,
            Options("POST", TRUE, JObj([k \in {"itemIds"} |-> itemIds])))

(***************************************************************************)
(* The HTTP response and how makeRequest reads it.  A response body is a   *)
(* text of JSON tokens: { } , : and the quote are one fragment each, the   *)
(* content of a string literal is one fragment.                            *)
(***************************************************************************)
Quote == "\""

Structural == {"{", "}", ",", ":", Quote}

\* response.ok
Ok(response) == response.status >= 200 /\ response.status <= 299

\* text[p .. p+6] is  "key" : "value"
IsMember(text, p) ==
  /\ text[p] = Quote /\ text[p + 1] \notin Structural /\ text[p + 2] = Quote
  /\ text[p + 3] = ":"
  /\ text[p + 4] = Quote /\ text[p + 5] \notin Structural /\ text[p + 6] = Quote

\* the number of members of an object text of n tokens: n = 8m + 1, m >= 1
Members(text) == (Len(text) - 1) \div 8

\* text is a JSON object whose values are string literals.  (The response
\* bodies of the model are such objects or are not JSON at all.)
IsObjectText(text) ==
  \/ text = <<"{", "}">>
  \/ /\ Len(text) >= 9 /\ (Len(text) - 1) % 8 = 0
     /\ text[1] = "{" /\ text[Len(text)] = "}"
     /\ \A m \in 1..Members(text) :
          /\ IsMember(text, 8 * (m - 1) + 2)
          /\ m < Members(text) => text[8 * m + 1] = ","

\* JSON.parse: the members of the object in order, as <<key, value>> pairs
JSONParse(text) ==
  IF text = <<"{", "}">> THEN <<>>
  ELSE [m \in 1..Members(text) |->
          <<text[8 * (m - 1) + 3], text[8 * (m - 1) + 7]>>]

\* JSON.stringify(result, null, 2)
JSONStringifyPretty(result) ==
  IF result = <<>> THEN <<"{}">>
  ELSE LET line(m) == <<"\n", "  ", Quote, result[m][1], Quote, ": ",
                        Quote, result[m][2], Quote>>
           F[m \in 0..Len(result)] ==
             IF m = 0 THEN <<"{">>
             ELSE F[m - 1] \o (IF m > 1 THEN <<",">> ELSE <<>>) \o line(m)
       IN F[Len(result)] \o <<"\n", "}">>

\* a thrown value: class is the constructor instanceof tests for
Thrown(class, message, errors) ==
  [class |-> class, message |-> message, errors |-> errors]

\* the message of the error response.json() rejects with; it differs between
\* the major versions of node-fetch the import can resolve to
JsonErrorMessage(build, url, text) ==
  LET reason == IF text = <<>> THEN <<"Unexpected end of JSON input">>
                ELSE <<"Unexpected token ", text[1], " in JSON at position 0">>
  IN IF build = "v2"
       THEN <<"invalid json response body at ">> \o url \o <<" reason: ">> \o reason
       ELSE reason

\* makeRequest reading the body as JSON before it looks at response.ok
MakeRequestResultParsesFirst(build, request, response) ==
  IF IsObjectText(response.body)
    THEN [throws |-> FALSE, value |-> JSONParse(response.body),
          error  |-> Thrown("", <<>>, <<>>)]
  ELSE IF ~Ok(response)
    THEN [throws |-> TRUE, value |-> <<>>,
          error  |-> Thrown("Error",
                       <<"Webflow API error (", ToString(response.status), "): ">>
                         \o response.body, <<>>)]
  ELSE [throws |-> TRUE, value |-> <<>>,
        error  |-> Thrown("Error",
                     JsonErrorMessage(build, request.url, response.body), <<>>)]

\* makeRequest after its await.  throws = FALSE: value is the parsed body.
MakeRequestResult(build, request, response) ==
  IF ~Ok(response)
    THEN [throws |-> TRUE, value |-> <<>>,
          error  |-> Thrown("Error",
                       <<"Webflow API error (", ToString(response.status), "): ">>
                         \o response.body, <<>>)]
  ELSE IF ~IsObjectText(response.body)
    THEN [throws |-> TRUE, value |-> <<>>,
          error  |-> Thrown("Error",
                       JsonErrorMessage(build, request.url, response.body), <<>>)]
  ELSE [throws |-> FALSE, value |-> JSONParse(response.body),
        error  |-> Thrown("", <<>>, <<>>)]

(***************************************************************************)
(* Tool Catalog: the tools array and the 'list tools' handler.  The        *)
(* description strings are left out, they are never read.                  *)
(***************************************************************************)
Tool(name, properties, required) ==
  [name |-> name, properties |-> properties, required |-> required]

tools ==
  << Tool("get_sites", {}, <<>>),
     Tool("get_site", {"siteId"}, <<"siteId">>),
     Tool("get_collections", {"siteId"}, <<"siteId">>),
     Tool("get_collection_items", {"collectionId", "limit", "offset"},
          <<"collectionId">>),
     Tool("create_collection_item",
          {"collectionId", "name", "slug", "fieldData", "isDraft", "isArchived"},
          <<"collectionId", "name">>),
     Tool("update_collection_item",
          {"collectionId", "itemId", "name", "slug", "fieldData", "isDraft",
           "isArchived"},
          <<"collectionId", "itemId">>),
     Tool("delete_collection_item", {"collectionId", "itemId"},
          <<"collectionId", "itemId">>),
     Tool("publish_collection_items", {"collectionId", "itemIds"},
          <<"collectionId", "itemIds">>) >>

CatalogNames == {tools[i].name : i \in 1..Len(tools)}

(***************************************************************************)
(* The 'call tool' handler.                                                *)
(***************************************************************************)
\* the switch with the case of the last catalog entry missing
SwitchCaseWithoutPublish(name) ==
  CASE name = "get_sites"                -> "getSites"
    [] name = "get_site"                 -> "getSite"
    [] name = "get_collections"          -> "getCollections"
    [] name = "get_collection_items"     -> "getCollectionItems"
    [] name = "create_collection_item"   -> "createCollectionItem"
    [] name = "update_collection_item"   -> "updateCollectionItem"
    [] name = "delete_collection_item"   -> "deleteCollectionItem"
    [] OTHER                             -> "default"

\* the switch over the tool name: the adapter operation of the case taken
SwitchCase(name) ==
  CASE name = "get_sites"                -> "getSites"
    [] name = "get_site"                 -> "getSite"
    [] name = "get_collections"          -> "getCollections"
    [] name = "get_collection_items"     -> "getCollectionItems"
    [] name = "create_collection_item"   -> "createCollectionItem"
    [] name = "update_collection_item"   -> "updateCollectionItem"
    [] name = "delete_collection_item"   -> "deleteCollectionItem"
    [] name = "publish_collection_items" -> "publishCollectionItems"
    [] OTHER                             -> "default"

\* the schema a case parses its arguments with (none for get_sites)
SchemaOf(name) ==
  CASE name = "get_site"                 -> GetSiteSchema
    [] name = "get_collections"          -> GetCollectionsSchema
    [] name = "get_collection_items"     -> GetCollectionItemsSchema
    [] name = "create_collection_item"   -> CreateCollectionItemSchema
    [] name = "update_collection_item"   -> UpdateCollectionItemSchema
    [] name = "delete_collection_item"   -> DeleteCollectionItemSchema
    [] name = "publish_collection_items" -> PublishCollectionItemsSchema
    [] OTHER                             -> <<>>

UpperCase ==
  <<"A", "B", "C", "D", "E", "F", "G", "H", "I", "J", "K", "L", "M",
    "N", "O", "P", "Q", "R", "S", "T", "U", "V", "W", "X", "Y", "Z">>

LowerCase ==
  <<"a", "b", "c", "d", "e", "f", "g", "h", "i", "j", "k", "l", "m",
    "n", "o", "p", "q", "r", "s", "t", "u", "v", "w", "x", "y", "z">>

Digits == {"0", "1", "2", "3", "4", "5", "6", "7", "8", "9"}

\* String.prototype.toLowerCase, character by character
ToLowerCase(text) ==
  [i \in 1..Len(text) |->
     IF \E j \in 1..Len(UpperCase) : UpperCase[j] = text[i]
       THEN LowerCase[CHOOSE j \in 1..Len(UpperCase) : UpperCase[j] = text[i]]
       ELSE text[i]]

\* the character class [a-z0-9]
IsLowerAlnum(ch) == ch \in {LowerCase[j] : j \in 1..Len(LowerCase)} \cup Digits

\* text.replace(/[^a-z0-9]+/g, '-'): every maximal run of characters outside
\* [a-z0-9] becomes one hyphen
ReplaceRuns(text) ==
  LET F[i \in 0..Len(text)] ==
        IF i = 0 THEN <<>>
        ELSE IF IsLowerAlnum(text[i]) THEN Append(F[i - 1], text[i])
        ELSE IF i > 1 /\ ~IsLowerAlnum(text[i - 1]) THEN F[i - 1]
        ELSE Append(F[i - 1], "-")
  IN F[Len(text)]

\* slug || name.toLowerCase().replace(/[^a-z0-9]+/g, '-')
SlugOrDerived(slug, name) ==
  IF Truthy(slug) THEN slug ELSE JStr(ReplaceRuns(ToLowerCase(name.s)))

\* the fieldData a caller passed, as an object to spread (...undefined
\* spreads nothing)
SpreadOf(fieldData) == IF fieldData.t = "object" THEN fieldData.o ELSE EmptyObj

\* itemData with the caller's fieldData spread first, name and slug last
CreateItemDataExplicitLast(d) ==
  JObj([k \in {"fieldData", "isDraft", "isArchived"} |->
    CASE k = "fieldData" ->
           JObj(Spread(SpreadOf(d.fieldData),
                       [j \in {"name", "slug"} |->
                          IF j = "name" THEN d.name
                          ELSE SlugOrDerived(d.slug, d.name)]))
      [] k = "isDraft"    -> d.isDraft
      [] k = "isArchived" -> d.isArchived])

\* itemData of case 'create_collection_item'
CreateItemData(d) ==
  JObj([k \in {"fieldData", "isDraft", "isArchived"} |->
    CASE k = "fieldData" ->
           JObj(Spread([j \in {"name", "slug"} |->
                          IF j = "name" THEN d.name
                          ELSE SlugOrDerived(d.slug, d.name)],
                       SpreadOf(d.fieldData)))
      [] k = "isDraft"    -> d.isDraft
      [] k = "isArchived" -> d.isArchived])

\* updateData.fieldData of case 'update_collection_item'
UpdateFieldData(d) ==
  LET withName == IF Truthy(d.name) THEN [k \in {"name"} |-> d.name]
                  ELSE EmptyObj
      withSlug == IF Truthy(d.slug)
                    THEN Spread(withName, [k \in {"slug"} |-> d.slug])
                    ELSE withName
  IN IF Truthy(d.fieldData) THEN Spread(withSlug, d.fieldData.o) ELSE withSlug

\* updateData of case 'update_collection_item'
UpdateData(d) ==
  LET a == IF Truthy(d.name) \/ Truthy(d.slug) \/ Truthy(d.fieldData)
             THEN [k \in {"fieldData"} |-> JObj(UpdateFieldData(d))]
             ELSE EmptyObj
      b == IF d.isDraft.t # "undefined"
             THEN Spread(a, [k \in {"isDraft"} |-> d.isDraft]) ELSE a
      c == IF d.isArchived.t # "undefined"
             THEN Spread(b, [k \in {"isArchived"} |-> d.isArchived]) ELSE b
  IN JObj(c)

\* the adapter call of a case, from the parsed arguments d
AdapterCall(name, d) ==
  CASE name = "get_sites"                -> getSites
    [] name = "get_site"                 -> getSite(d.siteId.s)
    [] name = "get_collections"          -> getCollections(d.siteId.s)
    [] name = "get_collection_items"     ->
         getCollectionItems(d.collectionId.s, d.limit, d.offset)
    [] name = "create_collection_item"   ->
         createCollectionItem(d.collectionId.s, CreateItemData(d))
    [] name = "update_collection_item"   ->
         updateCollectionItem(d.collectionId.s, d.itemId.s, UpdateData(d))
    [] name = "delete_collection_item"   ->
         deleteCollectionItem(d.collectionId.s, d.itemId.s)
    [] name = "publish_collection_items" ->
         publishCollectionItems(d.collectionId.s, d.itemIds)

\* new McpError(code, message); the constructor prefixes the message
CodeNumber(code) ==
  CASE code = "MethodNotFound" -> "-32601"
    [] code = "InvalidParams"  -> "-32602"
    [] code = "InternalError"  -> "-32603"

McpError(code, message) ==
  [class |-> "McpError", code |-> code,
   message |-> <<"MCP error ", CodeNumber(code), ": ">> \o message]

\* the handler from its entry to its first await or throw
\* (throws = TRUE: error is thrown inside the try block)
HandlerStart(name, args) ==
  LET parsed == ZodParse(SchemaOf(name), args) IN
  IF SwitchCase(name) = "default"
    THEN [throws |-> TRUE, request |-> getSites,
          error  |-> Thrown("McpError",
                       McpError("MethodNotFound", <<"Unknown tool: ", name>>).message,
                       <<>>)]
  ELSE IF name # "get_sites" /\ ~parsed.success
    THEN [throws |-> TRUE, request |-> getSites,
          error  |-> Thrown("ZodError", <<>>, parsed.errors)]
  ELSE [throws |-> FALSE, request |-> AdapterCall(name, parsed.data),
        error  |-> Thrown("", <<>>, <<>>)]

\* e.path.join('.') + ': ' + e.message for every issue, joined by ', '
ZodErrorText(errors) ==
  Join([i \in 1..Len(errors) |->
          Join([j \in 1..Len(errors[i].path) |-> <<errors[i].path[j]>>], <<".">>)
            \o <<": ">> \o errors[i].message],
       <<", ">>)

\* the catch block: the McpError the handler rejects with
Catch(name, error) ==
  IF error.class = "ZodError"
    THEN McpError("InvalidParams",
                  <<"Invalid parameters: ">> \o ZodErrorText(error.errors))
    ELSE McpError("InternalError",
                  <<"Error executing ", name, ": ">> \o error.message)

\* the check-mark glyph and the space that open the success messages
CheckMark == "[U+2705] "

\* the text of the content block a case returns on success
SuccessText(name, d, result) ==
  CASE name = "create_collection_item" ->
         <<CheckMark, "Successfully created collection item!", "\n\n">>
           \o JSONStringifyPretty(result)
    [] name = "update_collection_item" ->
         <<CheckMark, "Successfully updated collection item!", "\n\n">>
           \o JSONStringifyPretty(result)
    [] name = "delete_collection_item" ->
         <<CheckMark, "Successfully deleted collection item ">> \o d.itemId.s
    [] name = "publish_collection_items" ->
         <<CheckMark, "Successfully published ", ToString(Len(d.itemIds.a)), " item(s)!",
           "\n\n">> \o JSONStringifyPretty(result)
    [] OTHER -> JSONStringifyPretty(result)

\* what a call settles with: a result (content) or an error (code, message)
NoOutcome == [kind |-> "none", content |-> <<>>, code |-> "", message |-> <<>>]

Rejected(e) ==
  [kind |-> "error", content |-> <<>>, code |-> e.code, message |-> e.message]

Resolved(text) ==
  [kind |-> "result", content |-> << [type |-> "text", text |-> text] >>,
   code |-> "", message |-> <<>>]

\* the handler after the awaited fetch answered
HandlerFinish(build, name, args, request, response) ==
  LET r == MakeRequestResult(build, request, response)
      d == ZodParse(SchemaOf(name), args).data
  IN IF r.throws THEN Rejected(Catch(name, r.error))
     ELSE Resolved(SuccessText(name, d, r.value))

(***************************************************************************)
(* The inputs: tool names, argument mappings, remote responses.            *)
(***************************************************************************)
UnknownNames == {"unknown_tool", "GET_SITES", ""}

ToolNames == CatalogNames \cup UnknownNames

Alphabet == {"A", "7", "!"}

HelloWorld == <<"H", "e", "l", "l", "o", " ", "W", "o", "r", "l", "d", "!">>

Foo == <<"F", "o", "o">>

\* item names: every text over Alphabet up to MaxNameLen, and two longer ones
Names ==
  UNION {[1..n -> Alphabet] : n \in 0..MaxNameLen} \cup {HelloWorld, Foo}

S1 == JStr(<<"s1">>)
C1 == JStr(<<"c1">>)
I1 == JStr(<<"i1">>)
I2 == JStr(<<"i2">>)
NotAString == JNum(5)
CustomSlug == JStr(<<"custom">>)

\* an argument mapping per record, without its undefined-valued keys, and
\* the request that carries no argument mapping at all
ArgObjects(records) == {JObj(Strip(r)) : r \in records} \cup {Undefined}

FieldDatas ==
  { Undefined,
    JObj(EmptyObj),
    JObj([k \in {"slug"} |-> JStr(<<"fd-slug">>)]),
    JObj([k \in {"name"} |-> JStr(<<"fd-name">>)]),
    JObj([k \in {"name", "slug", "color"} |->
            CASE k = "name" -> JStr(<<"fd-name">>)
              [] k = "slug" -> JStr(<<"fd-slug">>)
              [] k = "color" -> JStr(<<"red">>)]) }

Ids ==
  { [collectionId |-> C1, itemId |-> I1],
    [collectionId |-> Undefined, itemId |-> I1],
    [collectionId |-> C1, itemId |-> NotAString],
    [collectionId |-> Undefined, itemId |-> Undefined] }

ArgChoices(name) ==
  CASE name = "get_site" \/ name = "get_collections" ->
         ArgObjects([siteId : {Undefined, S1, NotAString},
                     other  : {Undefined, JStr(<<"x">>)}])
    [] name = "get_collection_items" ->
         ArgObjects([collectionId : {Undefined, C1, NotAString},
                     limit  : {Undefined, JNum(0), JNum(25), JStr(<<"ten">>)},
                     offset : {Undefined, JNum(0), JNum(40), JBool(TRUE)}])
    [] name = "create_collection_item" ->
         ArgObjects(
           [collectionId : {C1},
            name         : {JStr(n) : n \in Names},
            slug         : {Undefined, JStr(<<>>), CustomSlug},
            fieldData    : FieldDatas,
            isDraft      : {Undefined, JBool(TRUE)},
            isArchived   : {Undefined}]
           \cup
           [collectionId : {Undefined, C1, NotAString},
            name         : {Undefined, JStr(Foo), NotAString},
            slug         : {Undefined, JNum(7)},
            fieldData    : {Undefined, JStr(<<"x">>)},
            isDraft      : {Undefined, JStr(<<"yes">>)},
            isArchived   : {Undefined, JBool(TRUE)}])
    [] name = "update_collection_item" ->
         ArgObjects(
           {[collectionId |-> i.collectionId, itemId |-> i.itemId,
             name |-> r.name, slug |-> r.slug, fieldData |-> r.fieldData,
             isDraft |-> r.isDraft, isArchived |-> r.isArchived] :
              i \in Ids,
              r \in [name       : {Undefined, JStr(<<>>), JStr(Foo)},
                     slug       : {Undefined, CustomSlug},
                     fieldData  : FieldDatas \cup {JStr(<<"x">>)},
                     isDraft    : {Undefined, JBool(TRUE), JBool(FALSE), JNum(1)},
                     isArchived : {Undefined, JBool(TRUE), JBool(FALSE)}]})
    [] name = "delete_collection_item" ->
         ArgObjects(Ids)
    [] name = "publish_collection_items" ->
         ArgObjects([collectionId : {Undefined, C1, NotAString},
                     itemIds : {Undefined, JArr(<<>>), JArr(<<I1>>),
                                JArr(<<I1, I2>>), JArr(<<I1, NotAString>>), I1}])
    [] OTHER ->
         ArgObjects([siteId : {Undefined, S1}, other : {Undefined, JStr(<<"x">>)}])

Response(status, body) == [status |-> status, body |-> body]

NoResponse == Response(0, <<>>)

EmptyObjectText == <<"{", "}">>

ItemText == <<"{", Quote, "id", Quote, ":", Quote, "i1", Quote, "}">>

TwoMemberText ==
  <<"{", Quote, "id", Quote, ":", Quote, "i1", Quote, ",",
         Quote, "slug", Quote, ":", Quote, "foo", Quote, "}">>

NotFoundText == <<"Not Found">>

Responses ==
  { Response(200, EmptyObjectText), Response(201, TwoMemberText),
    Response(204, <<>>), Response(200, NotFoundText),
    Response(299, ItemText), Response(300, ItemText),
    Response(404, NotFoundText), Response(500, <<>>) }

(***************************************************************************)
(* The state machine.  calls[c] is the state of the c-th handler           *)
(* invocation, sent[c] the fetch calls it issued, listing the answer to    *)
(* the last 'list tools' query.                                            *)
(***************************************************************************)
IdleCall ==
  [pc |-> "idle", name |-> "", args |-> Undefined, answered |-> FALSE,
   response |-> NoResponse, outcome |-> NoOutcome]

Init ==
  /\ calls = [c \in CallIds |-> IdleCall]
  /\ sent = [c \in CallIds |-> <<>>]
  /\ listing = <<>>

\* the 'list tools' handler
ListTools ==
  /\ listing' = tools
  /\ UNCHANGED <<calls, sent>>

\* a handler that takes a request only when no other call is in flight
CanStartWhenQuiet(c) == \A d \in CallIds : calls[d].pc # "awaiting"

\* the transport may hand a request to the handler: every request gets its
\* own invocation, whatever the other invocations are doing
CanStart(c) == calls[c].pc = "idle"

\* the 'call tool' handler, from the request to its await or its rejection
CallTool(c, name, args) ==
  /\ CanStart(c)
  /\ LET h == HandlerStart(name, args) IN
       IF h.throws
         THEN /\ calls' = [calls EXCEPT ![c] =
                   [pc |-> "done", name |-> name, args |-> args,
                    answered |-> FALSE, response |-> NoResponse,
                    outcome |-> Rejected(Catch(name, h.error))]]
              /\ sent' = sent
         ELSE /\ calls' = [calls EXCEPT ![c] =
                   [pc |-> "awaiting", name |-> name, args |-> args,
                    answered |-> FALSE, response |-> NoResponse,
                    outcome |-> NoOutcome]]
              /\ sent' = [sent EXCEPT ![c] = Append(@, h.request)]
  /\ UNCHANGED listing

\* the major versions of node-fetch the import can resolve to
FetchBuilds == {"v2", "v3"}

\* the remote API answers the fetch of call c: the handler runs to its end
Respond(c, response) ==
  /\ calls[c].pc = "awaiting"
  /\ \E build \in FetchBuilds :
     calls' = [calls EXCEPT ![c] =
       [@ EXCEPT !.pc = "done", !.answered = TRUE, !.response = response,
                 !.outcome = HandlerFinish(build, calls[c].name,
                                           calls[c].args, sent[c][1], response)]]
  /\ UNCHANGED <<sent, listing>>

\* the settled call is delivered to the caller and its invocation is gone
Retire(c) ==
  /\ calls[c].pc = "done"
  /\ calls' = [calls EXCEPT ![c] = IdleCall]
  /\ sent' = [sent EXCEPT ![c] = <<>>]
  /\ UNCHANGED listing

\* one call at a time, over every input
Next ==
  \/ ListTools
  \/ \E name \in ToolNames : \E args \in ArgChoices(name) : CallTool(1, name, args)
  \/ \E response \in Responses : Respond(1, response)
  \/ Retire(1)

Spec == Init /\ [][Next]_vars

(***************************************************************************)
(* Pipelined calls: up to MaxCalls invocations in flight, interleaved at   *)
(* their await, over a sample of the inputs.                               *)
(***************************************************************************)
ConcNames == {"get_sites", "get_site", "delete_collection_item", "unknown_tool"}

ConcArgs(name) ==
  CASE name = "get_site" -> ArgObjects({[siteId |-> S1]})
    [] name = "delete_collection_item" ->
         ArgObjects({[collectionId |-> C1, itemId |-> I1]})
    [] OTHER -> ArgObjects({EmptyObj})

ConcResponses ==
  { Response(200, ItemText), Response(204, <<>>), Response(404, NotFoundText) }

NextConc ==
  \/ \E c \in CallIds : \E name \in ConcNames : \E args \in ConcArgs(name) :
       CallTool(c, name, args)
  \/ \E c \in CallIds : \E response \in ConcResponses : Respond(c, response)
  \/ \E c \in CallIds : Retire(c)

ConcSpec == Init /\ [][NextConc]_vars

(***************************************************************************)
(* Properties.                                                             *)
(***************************************************************************)
\* the calls that left the handler's synchronous part
Started == {c \in CallIds : calls[c].pc # "idle"}

Settled == {c \in CallIds : calls[c].pc = "done"}

\* the calls that issued their fetch
Fetching == {c \in CallIds : sent[c] # <<>>}

\* the argument mapping of call c (empty when the request carries none)
ArgsOf(c) == calls[c].args.o

\* C1: a call of a tool name outside the catalog is rejected as
\* method-not-found (never internal-error or invalid-params) and issues no
\* HTTP request.
C1_UnknownToolIsMethodNotFound ==
  \A c \in Settled :
    calls[c].name \notin CatalogNames =>
      /\ calls[c].outcome.kind = "error"
      /\ calls[c].outcome.code = "MethodNotFound"
      /\ sent[c] = <<>>

\* what the code does with an unknown name: internal-error, no request
C1_UnknownToolIsInternalError ==
  \A c \in Settled :
    calls[c].name \notin CatalogNames =>
      /\ calls[c].outcome.kind = "error"
      /\ calls[c].outcome.code = "InternalError"
      /\ Contains(calls[c].outcome.message, <<"Unknown tool: ", calls[c].name>>)
      /\ sent[c] = <<>>

\* the slug C2 describes: the maximal runs of [a-z0-9] of the lowercased
\* name, joined by single hyphens (so no leading or trailing hyphen)
ClaimedSlug(name) ==
  LET low == ToLowerCase(name)
      starts == {i \in 1..Len(low) :
                   IsLowerAlnum(low[i]) /\ (i = 1 \/ ~IsLowerAlnum(low[i - 1]))}
      endOf(i) == CHOOSE j \in i..Len(low) :
                    /\ \A k \in i..j : IsLowerAlnum(low[k])
                    /\ (j = Len(low) \/ ~IsLowerAlnum(low[j + 1]))
      run(i) == [k \in 1..(endOf(i) - i + 1) |-> low[i + k - 1]]
      R[i \in 0..Len(low)] ==
        IF i = 0 THEN <<>>
        ELSE IF i \in starts THEN Append(R[i - 1], run(i)) ELSE R[i - 1]
  IN Join(R[Len(low)], <<"-">>)

\* the create calls that passed validation with a name, no slug, and no
\* slug inside fieldData
CreateNoSlug ==
  {c \in Fetching :
     /\ calls[c].name = "create_collection_item"
     /\ "slug" \notin DOMAIN ArgsOf(c)
     /\ "slug" \notin DOMAIN SpreadOf(Get(ArgsOf(c), "fieldData"))}

PayloadFieldData(c) == sent[c][1].body.o["fieldData"].o

\* C2: create_collection_item with a name and no slug sends fieldData.slug =
\* the name lowercased, every maximal run of non-alphanumerics replaced by
\* one hyphen, without leading or trailing hyphen ("Hello World!" gives
\* "hello-world").
C2_DerivedSlugHasNoHyphenArtifacts ==
  \A c \in CreateNoSlug :
    PayloadFieldData(c)["slug"] = JStr(ClaimedSlug(ArgsOf(c)["name"].s))

\* the fields of a schema a given argument mapping fails on: a required
\* field that is missing, or any field present with the wrong type
FailingKeys(schema, obj) ==
  {schema[i].key : i \in {j \in 1..Len(schema) :
     \/ ~schema[j].optional /\ Get(obj, schema[j].key).t = "undefined"
     \/ Get(obj, schema[j].key).t \notin {"undefined", schema[j].type}}}

RequiredKeys(schema) ==
  {schema[i].key : i \in {j \in 1..Len(schema) : ~schema[j].optional}}

\* the settled calls of a catalog tool that did not supply every required
\* field (the argument mapping empty, partial, or absent altogether)
MissingRequired ==
  {c \in Settled :
     /\ calls[c].name \in CatalogNames
     /\ \E k \in RequiredKeys(SchemaOf(calls[c].name)) :
          Get(ArgsOf(c), k).t = "undefined"}

\* C3: a call that does not supply a required field fails as invalid-params
\* with a message that contains the path of every missing or ill-typed
\* field, whether the argument mapping is empty, partial or absent.
C3_MissingFieldIsNamed ==
  \A c \in MissingRequired :
    /\ calls[c].outcome.kind = "error"
    /\ calls[c].outcome.code = "InvalidParams"
    /\ \A k \in FailingKeys(SchemaOf(calls[c].name), ArgsOf(c)) :
         Contains(calls[c].outcome.message, <<k>>)

\* the part of C3 the code keeps: invalid-params always, and every failing
\* field named when the request carries an argument mapping
C3_MissingFieldIsNamedInMapping ==
  \A c \in MissingRequired :
    /\ calls[c].outcome.kind = "error"
    /\ calls[c].outcome.code = "InvalidParams"
    /\ calls[c].args.t = "object" =>
         \A k \in FailingKeys(SchemaOf(calls[c].name), ArgsOf(c)) :
           Contains(calls[c].outcome.message, <<k>>)

\* the settled calls whose fetch the remote API answered
Answered == {c \in Settled : calls[c].answered}

\* C4: when the remote API answers a validated call with a status outside
\* 200-299, the call fails as internal-error; the message contains the tool
\* name, the status and the body text verbatim, the body is not parsed and
\* no success content is returned.
C4_RemoteFailureIsInternalError ==
  \A c \in Answered :
    ~(calls[c].response.status \in 200..299) =>
      /\ calls[c].outcome.kind = "error"
      /\ calls[c].outcome.code = "InternalError"
      /\ calls[c].outcome.content = <<>>
      /\ Contains(calls[c].outcome.message, <<calls[c].name>>)
      /\ Contains(calls[c].outcome.message,
                  <<ToString(calls[c].response.status)>>)
      /\ Contains(calls[c].outcome.message, calls[c].response.body)

\* a 404 "Not Found" answer reported as internal-error with both in it
C4_Witness ==
  \E c \in Answered :
    /\ calls[c].response = Response(404, NotFoundText)
    /\ calls[c].outcome.code = "InternalError"
    /\ Contains(calls[c].outcome.message, <<"404">>)
    /\ Contains(calls[c].outcome.message, NotFoundText)

\* a status outside 200-299 with a JSON body, reported as an error
C4_WitnessJsonBody ==
  \E c \in Answered :
    /\ calls[c].response = Response(300, ItemText)
    /\ calls[c].outcome.kind = "error"

\* C5: delete_collection_item with valid identifiers answered by any 2xx
\* status, an empty body included, succeeds with exactly one text block that
\* reports the deleted itemId.
C5_DeleteSucceedsOnAny2xx ==
  \A c \in Answered :
    (calls[c].name = "delete_collection_item"
       /\ calls[c].response.status \in 200..299) =>
      /\ calls[c].outcome.kind = "result"
      /\ Len(calls[c].outcome.content) = 1
      /\ calls[c].outcome.content[1].type = "text"
      /\ Contains(calls[c].outcome.content[1].text, ArgsOf(c)["itemId"].s)

\* the part of C5 the code keeps: a 2xx answer whose body is JSON
C5_DeleteSucceedsOnJsonBody ==
  \A c \in Answered :
    (calls[c].name = "delete_collection_item"
       /\ calls[c].response.status \in 200..299
       /\ IsObjectText(calls[c].response.body)) =>
      /\ calls[c].outcome.kind = "result"
      /\ Len(calls[c].outcome.content) = 1
      /\ Contains(calls[c].outcome.content[1].text, ArgsOf(c)["itemId"].s)

\* the create calls that passed validation and issued their POST
Creating == {c \in Fetching : calls[c].name = "create_collection_item"}

\* C6: the fieldData sent by create_collection_item is {name, slug (given or
\* derived)} with the caller's fieldData applied last: every key of the
\* caller's fieldData carries the caller's value, name and slug included;
\* the other keys keep the top-level or derived value.
C6_CallerFieldDataWins ==
  \A c \in Creating :
    LET given == SpreadOf(Get(ArgsOf(c), "fieldData"))
        name  == ArgsOf(c)["name"]
        slug  == Get(ArgsOf(c), "slug")
        out   == PayloadFieldData(c)
    IN /\ DOMAIN out = {"name", "slug"} \cup DOMAIN given
       /\ \A k \in DOMAIN given : out[k] = given[k]
       /\ "name" \notin DOMAIN given => out["name"] = name
       /\ "slug" \notin DOMAIN given =>
            out["slug"] = IF slug.t = "string" /\ slug.s # <<>> THEN slug
                          ELSE JStr(ReplaceRuns(ToLowerCase(name.s)))

\* name "Foo", no top-level slug, fieldData {slug}: fieldData.slug is sent
C6_Witness ==
  \E c \in Creating :
    /\ ArgsOf(c)["name"] = JStr(Foo)
    /\ "slug" \in DOMAIN SpreadOf(Get(ArgsOf(c), "fieldData"))
    /\ PayloadFieldData(c)["slug"] = JStr(<<"fd-slug">>)

\* a top-level slug and a fieldData slug together: fieldData's is sent
C6_WitnessBothSlugs ==
  \E c \in Creating :
    /\ Get(ArgsOf(c), "slug") = CustomSlug
    /\ PayloadFieldData(c)["slug"] = JStr(<<"fd-slug">>)

\* the update calls that passed validation and issued their PATCH
Updating == {c \in Fetching : calls[c].name = "update_collection_item"}

\* C7: the PATCH body of update_collection_item holds only what the caller
\* supplied: no fieldData, isDraft or isArchived key with only the two
\* identifiers; isDraft (isArchived) is a key exactly when supplied, with
\* the supplied value, false included; no default is substituted.
C7_UpdateBodyHasNoDefaults ==
  \A c \in Updating :
    LET a    == ArgsOf(c)
        body == sent[c][1].body.o
    IN /\ sent[c][1].method = "PATCH"
       /\ DOMAIN body \subseteq {"fieldData", "isDraft", "isArchived"}
       /\ DOMAIN a = {"collectionId", "itemId"} => DOMAIN body = {}
       /\ \A k \in {"isDraft", "isArchived"} :
            /\ k \in DOMAIN body <=> k \in DOMAIN a
            /\ k \in DOMAIN a => body[k] = a[k]
       /\ "fieldData" \in DOMAIN body =>
            /\ DOMAIN a \cap {"name", "slug", "fieldData"} # {}
            /\ \A k \in DOMAIN body["fieldData"].o :
                 \/ /\ k \in DOMAIN SpreadOf(Get(a, "fieldData"))
                    /\ body["fieldData"].o[k] = a["fieldData"].o[k]
                 \/ /\ k \in {"name", "slug"} \cap DOMAIN a
                    /\ body["fieldData"].o[k] = a[k]

\* an update with only the two identifiers: the body is the empty object
C7_Witness ==
  \E c \in Updating :
    /\ DOMAIN ArgsOf(c) = {"collectionId", "itemId"}
    /\ sent[c][1].body = JObj(EmptyObj)

\* an update that supplies isDraft false: the body carries it
C7_WitnessFalse ==
  \E c \in Updating :
    /\ Get(ArgsOf(c), "isDraft") = JBool(FALSE)
    /\ sent[c][1].body.o["isDraft"] = JBool(FALSE)

\* the list-items calls that passed validation and issued their GET
Listing == {c \in Fetching : calls[c].name = "get_collection_items"}

\* C8: get_collection_items issues exactly one GET to
\* /collections/{collectionId}/items whose query carries limit and offset:
\* the caller's values, or 10 and 0 for whichever is omitted.
C8_ListItemsQueryDefaults ==
  \A c \in Listing :
    LET a      == ArgsOf(c)
        limit  == IF "limit" \in DOMAIN a THEN a["limit"].n ELSE 10
        offset == IF "offset" \in DOMAIN a THEN a["offset"].n ELSE 0
    IN /\ Len(sent[c]) = 1
       /\ sent[c][1].method = "GET"
       /\ ~sent[c][1].hasBody
       /\ sent[c][1].url =
            <<"https://api.webflow.com/v2", "/collections/">> \o a["collectionId"].s
              \o <<"/items?limit=", ToString(limit), "&offset=",
                   ToString(offset)>>

\* limit and offset omitted: the query is limit=10&offset=0
C8_Witness ==
  \E c \in Listing :
    /\ DOMAIN ArgsOf(c) = {"collectionId"}
    /\ Contains(sent[c][1].url, <<"/items?limit=", "10", "&offset=", "0">>)

\* the names of a listing
NamesOf(listed) == {listed[i].name : i \in 1..Len(listed)}

\* a call the switch sent to its default branch
UnknownToolOutcome(c) ==
  /\ calls[c].pc = "done"
  /\ Contains(calls[c].outcome.message, <<"Unknown tool: ">>)

\* the adapter operation a request belongs to, by method and path
OperationOf(request) ==
  LET path == Tail(request.url)
      last == path[Len(path)]
  IN CASE request.method = "PATCH"  -> "updateCollectionItem"
       [] request.method = "DELETE" -> "deleteCollectionItem"
       [] request.method = "POST" /\ last = "/items/publish" -> "publishCollectionItems"
       [] request.method = "POST" -> "createCollectionItem"
       [] path = <<"/sites">> -> "getSites"
       [] last = "/collections" -> "getCollections"
       [] path[1] = "/sites/" -> "getSite"
       [] OTHER -> "getCollectionItems"

\* the one operation the catalog describes under each name
Described ==
  [n \in CatalogNames |->
     CASE n = "get_sites"                -> "getSites"
       [] n = "get_site"                 -> "getSite"
       [] n = "get_collections"          -> "getCollections"
       [] n = "get_collection_items"     -> "getCollectionItems"
       [] n = "create_collection_item"   -> "createCollectionItem"
       [] n = "update_collection_item"   -> "updateCollectionItem"
       [] n = "delete_collection_item"   -> "deleteCollectionItem"
       [] n = "publish_collection_items" -> "publishCollectionItems"]

C9_CatalogMatchesDispatchNow ==
  /\ listing # <<>> =>
       /\ Len(listing) = Cardinality(NamesOf(listing))
       /\ \A c \in Started :
            calls[c].name \in NamesOf(listing) <=> ~UnknownToolOutcome(c)
  /\ \A c \in Fetching :
       /\ Len(sent[c]) = 1
       /\ calls[c].name \in CatalogNames
       /\ OperationOf(sent[c][1]) = Described[calls[c].name]

\* C9: the names 'list tools' returns are exactly the names the dispatch
\* handles: a listed name is routed to its one adapter operation and never
\* to the unknown-tool branch, a name not listed always is; and the listing
\* is the same on every query.
C9_CatalogMatchesDispatch ==
  /\ []C9_CatalogMatchesDispatchNow
  /\ [][listing # <<>> => listing' = listing]_vars

\* the catalog was listed, one listed tool was routed to its operation and
\* an unlisted name was rejected by the default branch
C9_Witness ==
  /\ listing # <<>>
  /\ \E c \in Fetching : calls[c].name = "publish_collection_items"

C9_WitnessUnknown ==
  /\ listing # <<>>
  /\ \E c \in Settled : calls[c].name \notin NamesOf(listing) /\ UnknownToolOutcome(c)

\* what call c settles with, from its own name, arguments and answer alone
OwnOutcomes(c) ==
  LET h == HandlerStart(calls[c].name, calls[c].args) IN
  IF h.throws THEN {Rejected(Catch(calls[c].name, h.error))}
  ELSE {HandlerFinish(build, calls[c].name, calls[c].args, h.request,
                      calls[c].response) : build \in FetchBuilds}

\* every settled call has the outcome its own inputs give, and a call still
\* waiting for its answer has none
C10_OutcomeIsOwn ==
  \A c \in CallIds :
    /\ calls[c].pc = "done" => calls[c].outcome \in OwnOutcomes(c)
    /\ calls[c].pc = "awaiting" =>
         /\ calls[c].outcome = NoOutcome
         /\ sent[c] = <<HandlerStart(calls[c].name, calls[c].args).request>>

\* a call that waits for its answer blocks no other call: an idle slot can
\* take any request and every other waiting call can take its answer
C10_NotBlocked ==
  \A c \in CallIds :
    /\ calls[c].pc = "idle" =>
         \A name \in ConcNames : \A args \in ConcArgs(name) :
           ENABLED CallTool(c, name, args)
    /\ calls[c].pc = "awaiting" =>
         \A response \in ConcResponses : ENABLED Respond(c, response)

\* a step changes one call at most, and a waiting call settles only by its
\* own answer
C10_Step ==
  /\ Cardinality({c \in CallIds : calls'[c] # calls[c] \/ sent'[c] # sent[c]}) <= 1
  /\ \A c \in CallIds :
       (calls[c].pc = "awaiting" /\ calls'[c] # calls[c]) =>
         /\ calls'[c].pc = "done"
         /\ calls'[c].answered
         /\ calls'[c].response \in ConcResponses

\* C10: with several calls in flight, interleaved at their await, each
\* call's outcome depends only on its own name, arguments and answer; a call
\* whose request is never answered never completes, and it neither blocks
\* nor alters any other call.
C10_CallsAreIndependent ==
  /\ [](C10_OutcomeIsOwn /\ C10_NotBlocked)
  /\ [][C10_Step]_vars

\* one call still waits for its answer while another, started meanwhile,
\* was answered and settled
C10_Witness ==
  \E c, d \in CallIds :
    /\ c # d
    /\ calls[c].pc = "awaiting"
    /\ calls[d].pc = "done" /\ calls[d].answered

====
